---- MODULE Spec2Model ----
(***************************************************************************)
(* Ecosend report generator: the paginated ingestion client                *)
(* (ecosend_client.py) and the four report builders (report_1.py ..        *)
(* report_4.py), as one state machine.  One report run is                  *)
(*   Generate -> Request* -> (classify | per-person loop) -> emit,         *)
(* and a failed page request or a faulting record aborts the run.          *)
(***************************************************************************)
EXTENDS Integers, Sequences, FiniteSets, TLC

VARIABLES
    upstream,       \* the pages the API serves to the successive requests of a fetch
    clock,          \* the last reading of the wall clock, in seconds
    budget,         \* report runs the caller may still start
    pc,             \* "idle" | "fetch" | "classify" | "loop" | "emit"
    report,         \* the report being generated (1..4), 0 when none
    offset,         \* get_all_people: offset
    all_people,     \* get_all_people: all_people (the accumulator)
    requests,       \* the page requests of the current fetch: the 'limit' parameter
                    \* "offset,limit" each sent, and whether it succeeded
    people,         \* the list get_all_people returned to the report
    idx,            \* report 2: contacts processed so far by the loop
    hubs_counts,    \* report 2: hubs_counts
    cutoff,         \* reports 1, 3, 4: cutoff of get_active_emails
    active,         \* reports 1, 3: active_emails; report 4: the two active sets
    files,          \* the spreadsheets on disk: file name -> rows
    outcome,        \* what the last run gave its caller: [kind, ...]
    earlier,        \* history: the run before the current one, as it ended
    lookup          \* a batch of has_email_activity calls: the feeds the API
                    \* serves, the call in progress, the answers so far

vars == <<upstream, clock, budget, pc, report, offset, all_people, requests,
          people, idx, hubs_counts, cutoff, active, files, outcome, earlier,
          lookup>>

\* the variables of a report run
reportVars == <<upstream, clock, budget, pc, report, offset, all_people, requests,
                people, idx, hubs_counts, cutoff, active, files, outcome,
                earlier>>

-----------------------------------------------------------------------------
(* Bounds of the model *)

MaxPages == 3       \* pages the upstream holds in the pagination runs
MaxPeople == 3      \* contacts the upstream holds in the aggregation runs
MaxTicks == 2       \* seconds the clock may advance

-----------------------------------------------------------------------------
(* Program constants *)

limit == 250

SecondsPerDay == 24 * 60 * 60
timedelta_days_90 == 90 * SecondsPerDay

\* the clock starts two seconds before midnight of day 100
StartClock == 100 * SecondsPerDay - 2

FACULTY_SMART_GROUPS ==
    << [slug |-> "fah-faculty-of-arts-humanities",
        name |-> "FAH (Faculty of Arts & Humanities)"],
       [slug |-> "fels-faculty-of-environmental-life-sciences",
        name |-> "FELS (Faculty of Environmental & Life Sciences)"],
       [slug |-> "feps-faculty-of-engineering-physical-sciences",
        name |-> "FEPS (Faculty of Engineering & Physical Sciences)"],
       [slug |-> "fm-faculty-of-medicine",
        name |-> "FM (Faculty of Medicine)"],
       [slug |-> "fss-faculty-of-social-sciences",
        name |-> "FSS (Faculty of Social Sciences)"],
       [slug |-> "professional-services",
        name |-> "Professional Services"] >>

HUB_SMART_GROUPS ==
    << [slug |-> "artificial-intelligence-ai-society",
        name |-> "Artificial Intelligence (AI) & Society"],
       [slug |-> "health-wellbeing",
        name |-> "Health & Wellbeing"],
       [slug |-> "nature-biodiversity-sustainability",
        name |-> "Nature, Biodiversity & Sustainability"],
       [slug |-> "future-cities",
        name |-> "Future Cities"] >>

UOS_SMART_GROUP == "work-study-at-the-uos"
ALUMNI_SMART_GROUP == "alumni-of-the-uos"

\* dict.values() / dict.items() as sets
Names(table) == {table[i].name : i \in 1..Len(table)}
Slugs(table) == {table[i].slug : i \in 1..Len(table)}
SlugOf(table, n) == (CHOOSE i \in 1..Len(table) : table[i].name = n)

-----------------------------------------------------------------------------
(* JSON values of a contact record.  A record is a function from the keys it *)
(* holds to tagged values; a key the API left out is not in its domain.      *)

JNull == [t |-> "null"]
JNum(n) == [t |-> "num", v |-> n]
JStr(s) == [t |-> "str", v |-> s]
JList(S) == [t |-> "list", v |-> S]
\* timestamp strings, by their content: ISO-8601 with a local reading and a
\* zone designator ("Z", "+00:00", "+01:00", or "" for none), the empty string,
\* and any other text
IsoStr(local, tz) == [t |-> "str", form |-> "iso", local |-> local, tz |-> tz]
EmptyStr == [t |-> "str", form |-> "empty"]
TextStr == [t |-> "str", form |-> "text"]

\* dict.get(key) with the default None
Get(p, key) == IF key \in DOMAIN p THEN p[key] ELSE JNull

\* Python truth value of a timestamp field
Truthy(x) ==
    CASE x.t = "null" -> FALSE
      [] x.t = "num" -> x.v # 0
      [] x.t = "str" -> x.form # "empty"
      [] OTHER -> TRUE

\* a or b
Or(a, b) == IF Truthy(a) THEN a ELSE b

\* str.lower() on the e-mail alphabet of the model
Lower(s) ==
    CASE s = "A@x" -> "a@x"
      [] s = "B@x" -> "b@x"
      [] OTHER -> s

\* person.get('email', '').lower(): the key's default is '', and a value that
\* is no string has no lower() (AttributeError)
EmailFault(p) == "email" \in DOMAIN p /\ p.email.t # "str"
Email(p) == IF "email" \in DOMAIN p THEN Lower(p.email.v) ELSE ""

\* person.get('smart_groups', []) and the test 'slug in smart_groups': a null
\* value is no container (TypeError)
GroupsFault(p) == "smart_groups" \in DOMAIN p /\ p.smart_groups.t \in {"null", "num"}
Groups(p) == IF "smart_groups" \in DOMAIN p THEN p.smart_groups.v ELSE {}
InGroups(slug, p) == slug \in Groups(p)

-----------------------------------------------------------------------------
(* Activity classification: get_active_emails *)

\* last_seen.replace('Z', '+00:00')
replace_Z(s) == [s EXCEPT !.tz = IF s.tz = "Z" THEN "+00:00" ELSE s.tz]

UtcOffset(tz) == IF tz = "+01:00" THEN 60 * 60 ELSE 0

\* datetime.fromisoformat: a datetime (aware iff the text carries an offset),
\* or ValueError for text that is no ISO date and for the bare designator "Z"
fromisoformat(s) ==
    IF s.form # "iso" \/ s.tz = "Z"
    THEN [err |-> "ValueError"]
    ELSE [err |-> "", aware |-> s.tz # "", instant |-> s.local - UtcOffset(s.tz)]

\* the comparison made exclusive
SeenSince_Exclusive(d, cut) == IF d.aware THEN d.instant > cut ELSE FALSE

\* a naive seen_date read as UTC
SeenSince_NaiveAsUtc(d, cut) == d.instant >= cut

\* seen_date >= cutoff, with cutoff aware: TypeError for a naive seen_date
SeenSince(d, cut) == IF d.aware THEN d.instant >= cut ELSE FALSE

\* the body of 'if last_seen:' with its try/except: what is not a string is
\* skipped, ValueError and TypeError are swallowed
TryActive(last_seen, cut) ==
    IF last_seen.t # "str"
    THEN FALSE
    ELSE LET seen_date == fromisoformat(replace_Z(last_seen))
         IN  IF seen_date.err # "" THEN FALSE ELSE SeenSince(seen_date, cut)

\* engaged_at taken first
LastSeen_EngagedFirst(p) == Or(Get(p, "engaged_at"), Get(p, "last_seen"))

\* last_seen = person.get('last_seen') or person.get('engaged_at')
LastSeen(p) == Or(Get(p, "last_seen"), Get(p, "engaged_at"))

\* one iteration of the loop of get_active_emails: does it add the e-mail?
IsActive(p, cut) ==
    /\ Email(p) # ""
    /\ Truthy(LastSeen(p))
    /\ TryActive(LastSeen(p), cut)

\* cutoff = now(utc) - timedelta(days=90)
Cutoff(now) == now - timedelta_days_90

get_active_emails(ps, cut) ==
    {Email(ps[i]) : i \in {j \in 1..Len(ps) : IsActive(ps[j], cut)}}

-----------------------------------------------------------------------------
(* Percentages and file names *)

\* num/den rounded to the nearest integer, ties to even (what the float
\* formatting does with an exactly representable tie)
RoundHalfEven(num, den) ==
    LET q == num \div den
        r == num % den
    IN  IF 2 * r < den THEN q
        ELSE IF 2 * r > den THEN q + 1
        ELSE IF q % 2 = 0 THEN q ELSE q + 1

\* the percentage cut off after two decimals
PctHundredths_Truncated(act, total) ==
    IF total > 0 THEN (act * 100 * 100) \div total ELSE 0

\* (active / total * 100) if total > 0 else 0, in hundredths of a percent
PctHundredths(act, total) ==
    IF total > 0 THEN RoundHalfEven(act * 100 * 100, total) ELSE 0

TwoDigits(n) == IF n < 10 THEN "0" \o ToString(n) ELSE ToString(n)

\* f"{pct:.2f}%"
FormatPct(h) == ToString(h \div 100) \o "." \o TwoDigits(h % 100) \o "%"

ActivePct(act, total) == FormatPct(PctHundredths(act, total))

\* datetime.now().strftime("%Y%m%d"): the calendar day, as its number
\* a prefix that carries the time of day
date_prefix_ToTheSecond(now) == ToString(now)

date_prefix(now) == ToString(now \div SecondsPerDay)

FileName(r, now) ==
    date_prefix(now) \o
    (CASE r = 1 -> "_faculty_activity.xlsx"
       [] r = 2 -> "_membership_report.xlsx"
       [] r = 3 -> "_activity_per_hub.xlsx"
       [] r = 4 -> "_uos_activity.xlsx")

-----------------------------------------------------------------------------
(* Rows of the report tables: functions from column names to values *)

\* the indices of the records one loop of get_list_members gets past the
\* 'if not email: continue' with
WithEmail(ps) == {i \in 1..Len(ps) : Email(ps[i]) # ""}

\* a record on which the loops of reports 1, 3 and 4 raise: an e-mail that is
\* no string, or, past the e-mail test, smart_groups that is no container
Faults(p) == EmailFault(p) \/ (Email(p) # "" /\ GroupsFault(p))
AnyFault(ps) == \E i \in 1..Len(ps) : Faults(ps[i])
\* the exception of the first such record: None has no lower(), and 'slug in
\* None' is a TypeError
FirstFault(ps) ==
    LET i == CHOOSE k \in 1..Len(ps) :
                 Faults(ps[k]) /\ \A j \in 1..(k - 1) : ~Faults(ps[j])
    IN  IF EmailFault(ps[i]) THEN "AttributeError" ELSE "TypeError"

(* Report 1: Faculty Activity *)

\* get_list_members: display name -> set of e-mails
faculty_members(ps) ==
    [n \in Names(FACULTY_SMART_GROUPS) |->
        {Email(ps[i]) : i \in {j \in WithEmail(ps) :
            InGroups(FACULTY_SMART_GROUPS[SlugOf(FACULTY_SMART_GROUPS, n)].slug, ps[j])}}]

\* every active e-mail taken as active in every faculty
build_active_faculty_members_NoFilter(fm, active_emails) ==
    [f \in DOMAIN fm |-> active_emails]

build_active_faculty_members(fm, active_emails) ==
    [f \in DOMAIN fm |-> {e \in fm[f] : e \in active_emails}]

FacultyRow(faculty, total, act) ==
    ("Faculty" :> faculty) @@ ("Total Members" :> total)
    @@ ("Active Members" :> act) @@ ("Active %" :> ActivePct(act, total))

\* report_data, in the order of faculty_members.items()
report_data_1(ps, active_emails) ==
    LET fm == faculty_members(ps)
        afm == build_active_faculty_members(fm, active_emails)
    IN  [i \in 1..Len(FACULTY_SMART_GROUPS) |->
            LET faculty == FACULTY_SMART_GROUPS[i].name
            IN  FacultyRow(faculty, Cardinality(fm[faculty]), Cardinality(afm[faculty]))]

(* Report 3: Activity per Hub *)

\* members[email] is assigned once per record, so the last record of an
\* e-mail decides its interests
LastOf(ps, e) ==
    LET same == {i \in 1..Len(ps) : Email(ps[i]) = e}
    IN  CHOOSE i \in same : \A j \in same : j <= i

interests(p) == {h \in Names(HUB_SMART_GROUPS) :
                    InGroups(HUB_SMART_GROUPS[SlugOf(HUB_SMART_GROUPS, h)].slug, p)}

\* members: e-mail -> interests
members_3(ps) ==
    [e \in {Email(ps[i]) : i \in WithEmail(ps)} |-> interests(ps[LastOf(ps, e)])]

\* [email for email, data in members.items() if hub_name in data['interests']]
hub_members(members, hub_name) == {e \in DOMAIN members : hub_name \in members[e]}

HubRow(hub, total, act) ==
    ("Hub" :> hub) @@ ("Members" :> total)
    @@ ("Active" :> act) @@ ("Active %" :> ActivePct(act, total))

summary_3(ps, active_emails) ==
    LET members == members_3(ps)
    IN  [i \in 1..Len(HUB_SMART_GROUPS) |->
            LET hub_name == HUB_SMART_GROUPS[i].name
                hm == hub_members(members, hub_name)
                active_hub_members == {e \in hm : e \in active_emails}
            IN  HubRow(hub_name, Cardinality(hm), Cardinality(active_hub_members))]

(* Report 4: UoS vs Non-UoS *)

uos_members(ps) ==
    [UOS |-> {Email(ps[i]) : i \in {j \in WithEmail(ps) : InGroups(UOS_SMART_GROUP, ps[j])}},
     NonUOS |-> {Email(ps[i]) : i \in {j \in WithEmail(ps) : ~InGroups(UOS_SMART_GROUP, ps[j])}}]

\* get_active_emails_by_status: 'if email in uos_emails ... elif email in non_uos_emails'
get_active_emails_by_status(ps, cut, uos_emails, non_uos_emails) ==
    LET act == get_active_emails(ps, cut)
    IN  [UOS |-> {e \in act : e \in uos_emails},
         NonUOS |-> {e \in act : e \notin uos_emails /\ e \in non_uos_emails}]

CategoryRow(cat, total, act) ==
    ("Category" :> cat) @@ ("Members" :> total)
    @@ ("Active" :> act) @@ ("Active %" :> ActivePct(act, total))

summary_4(ps, act) ==
    LET members == uos_members(ps)
    IN  << CategoryRow("UOS", Cardinality(members.UOS), Cardinality(act.UOS)),
           CategoryRow("Non-UOS", Cardinality(members.NonUOS), Cardinality(act.NonUOS)) >>

(* Report 2: Membership Breakdown *)

\* the initial hubs_counts
hubs_counts_init ==
    [h \in Names(HUB_SMART_GROUPS) |->
        [total |-> 0, non_current |-> 0, current |-> 0, alumni |-> 0,
         faculties |-> [f \in Names(FACULTY_SMART_GROUPS) |-> [total |-> 0]]]]

Bump(cond) == IF cond THEN 1 ELSE 0

\* the counting of one person into the hubs of hubs_interested: total, the
\* faculties the person has, current or non_current, and alumni
count_person(hc, p, hubs_interested) ==
    LET is_current_uos == InGroups(UOS_SMART_GROUP, p)
        is_alumni == InGroups(ALUMNI_SMART_GROUP, p)
    IN  [h \in DOMAIN hc |->
            IF h \notin hubs_interested
            THEN hc[h]
            ELSE [total |-> hc[h].total + 1,
                  non_current |-> hc[h].non_current + Bump(~is_current_uos),
                  current |-> hc[h].current + Bump(is_current_uos),
                  alumni |-> hc[h].alumni + Bump(is_alumni),
                  faculties |->
                    [f \in DOMAIN hc[h].faculties |->
                        [total |-> hc[h].faculties[f].total +
                            Bump(InGroups(FACULTY_SMART_GROUPS[SlugOf(FACULTY_SMART_GROUPS, f)].slug, p))]]]]

\* a loop that takes an alumnus for neither current nor non-current
process_person_AlumniApart(hc, p) ==
    LET counted == count_person(hc, p, interests(p))
    IN  [h \in DOMAIN hc |->
            IF InGroups(ALUMNI_SMART_GROUP, p)
            THEN [counted[h] EXCEPT !.non_current = hc[h].non_current,
                                    !.current = hc[h].current]
            ELSE counted[h]]

\* a loop that stops looking for hubs at the first one the person has
process_person_FirstHubOnly(hc, p) ==
    LET first == {i \in 1..Len(HUB_SMART_GROUPS) :
                    /\ InGroups(HUB_SMART_GROUPS[i].slug, p)
                    /\ \A j \in 1..(i - 1) : ~InGroups(HUB_SMART_GROUPS[j].slug, p)}
    IN  count_person(hc, p, {HUB_SMART_GROUPS[i].name : i \in first})

\* one iteration of 'for person in people': hubs_interested is every hub the
\* person has
process_person(hc, p) == count_person(hc, p, interests(p))

\* counts['faculties'].get(key, {}).get('total', 0)
faculties_get(counts, key) ==
    IF key \in DOMAIN counts.faculties THEN counts.faculties[key].total ELSE 0

hub_data(hub, counts) ==
    ("PCE Hub" :> hub) @@ ("Total" :> counts.total)
    @@ ("Non-Current UoS" :> counts.non_current)
    @@ ("Current UoS" :> counts.current)
    @@ ("Alumni" :> counts.alumni)
    @@ ("FAH" :> faculties_get(counts, "FAH"))
    @@ ("FELS" :> faculties_get(counts, "FELS"))
    @@ ("FEPS" :> faculties_get(counts, "FEPS"))
    @@ ("FM" :> faculties_get(counts, "FM"))
    @@ ("FSS" :> faculties_get(counts, "FSS"))
    @@ ("PS" :> faculties_get(counts, "Professional Services"))

\* sum(1 for p in people if slug in p.get('smart_groups', []))
CountIn(ps, slug) == Cardinality({i \in 1..Len(ps) : InGroups(slug, ps[i])})

\* sum(1 for p in people if slug not in p.get('smart_groups', []))
CountNotIn(ps, slug) == Cardinality({i \in 1..Len(ps) : ~InGroups(slug, ps[i])})

\* the contacts of some hub only
all_hubs_total_InSomeHub(ps) ==
    Cardinality({i \in 1..Len(ps) : interests(ps[i]) # {}})

\* the contacts that have an e-mail only
all_hubs_total_WithEmail(ps) == Cardinality(WithEmail(ps))

\* len(people)
all_hubs_total(ps) == Len(ps)

all_hubs_row(ps, now) ==
    ("PCE Hub" :> "All Hubs") @@ ("Total" :> all_hubs_total(ps))
    @@ ("Non-Current UoS" :> CountNotIn(ps, UOS_SMART_GROUP))
    @@ ("Current UoS" :> CountIn(ps, UOS_SMART_GROUP))
    @@ ("Alumni" :> CountIn(ps, ALUMNI_SMART_GROUP))
    @@ ("FAH" :> CountIn(ps, "fah-faculty-of-arts-humanities"))
    @@ ("FELS" :> CountIn(ps, "fels-faculty-of-environmental-life-sciences"))
    @@ ("FEPS" :> CountIn(ps, "feps-faculty-of-engineering-physical-sciences"))
    @@ ("FM" :> CountIn(ps, "fm-faculty-of-medicine"))
    @@ ("FSS" :> CountIn(ps, "fss-faculty-of-social-sciences"))
    @@ ("PS" :> CountIn(ps, "professional-services"))
    @@ ("Report Date" :> date_prefix(now))

\* report_data: the hub rows in the order of hubs_counts.items(), then
\* report_data.insert(0, all_hubs_row)
report_data_2(hc, ps, now) ==
    <<all_hubs_row(ps, now)>> \o
    [i \in 1..Len(HUB_SMART_GROUPS) |->
        hub_data(HUB_SMART_GROUPS[i].name, hc[HUB_SMART_GROUPS[i].name])]

-----------------------------------------------------------------------------
(* The contacts of the model *)

\* the cutoff of a classification made at StartClock
T90 == StartClock - timedelta_days_90

FAH == "fah-faculty-of-arts-humanities"
FELS == "fels-faculty-of-environmental-life-sciences"
PS == "professional-services"
HubAI == "artificial-intelligence-ai-society"
HubHealth == "health-wellbeing"
HubCities == "future-cities"

Universe ==
    { \* last seen exactly 90 days before StartClock; two hubs, two faculties
      [id |-> JStr("p1"), email |-> JStr("a@x"),
       smart_groups |-> JList({FAH, PS, HubAI, HubHealth, UOS_SMART_GROUP}),
       last_seen |-> IsoStr(T90, "Z")],
      \* last seen one second earlier, engaged since
      [id |-> JStr("p2"), email |-> JStr("b@x"),
       smart_groups |-> JList({FAH, HubAI, ALUMNI_SMART_GROUP}),
       last_seen |-> IsoStr(T90 - 1, "+00:00"),
       engaged_at |-> IsoStr(StartClock, "Z")],
      \* no last_seen; engaged_at in another zone, MaxTicks seconds after T90
      [id |-> JStr("p3"), email |-> JStr("c@x"),
       smart_groups |-> JList({FAH, HubAI, UOS_SMART_GROUP}),
       last_seen |-> JNull,
       engaged_at |-> IsoStr(T90 + 60 * 60 + 2, "+01:00")],
      \* the e-mail of p1 in upper case, not at the UoS; last_seen is no date
      [id |-> JStr("p4"), email |-> JStr("A@x"),
       smart_groups |-> JList({HubAI, FELS}),
       last_seen |-> TextStr,
       engaged_at |-> IsoStr(StartClock, "Z")],
      \* no e-mail key
      [id |-> JStr("p5"),
       smart_groups |-> JList({FAH, HubHealth, UOS_SMART_GROUP, ALUMNI_SMART_GROUP}),
       last_seen |-> IsoStr(StartClock, "Z")],
      \* an empty e-mail
      [id |-> JStr("p6"), email |-> JStr(""),
       smart_groups |-> JList({PS, HubCities}),
       last_seen |-> IsoStr(StartClock, "Z")],
      \* no smart_groups key; last_seen is a number
      [id |-> JStr("p7"), email |-> JStr("d@x"),
       last_seen |-> JNum(StartClock)],
      \* an unknown group only; last_seen carries no zone
      [id |-> JStr("p8"), email |-> JStr("e@x"),
       smart_groups |-> JList({"unknown-group"}),
       last_seen |-> IsoStr(StartClock, ""),
       engaged_at |-> EmptyStr] }

\* the sequences over S of length at most n
SeqsUpTo(S, n) == UNION {[1..k -> S] : k \in 0..n}

\* the aggregation runs: the upstream holds at most MaxPeople contacts, which
\* one page serves
SmallUpstreams == {<<page>> : page \in SeqsUpTo(Universe, MaxPeople)}

\* the pagination runs: pages of 0, 100 or 250 records with distinct ids, the
\* other fields taken from the contacts above in turn
PageSizes == {0, 100, limit}

Filler(k) ==
    LET u == CHOOSE c \in Universe : c.id = JStr("p" \o ToString((k % 8) + 1))
    IN  [u EXCEPT !.id = JNum(k)]

RECURSIVE SumTo(_, _)
SumTo(sizes, n) == IF n = 0 THEN 0 ELSE SumTo(sizes, n - 1) + sizes[n]

PagesOf(sizes) ==
    [n \in 1..Len(sizes) |-> [k \in 1..sizes[n] |-> Filler(SumTo(sizes, n - 1) + k)]]

BigUpstreams == {PagesOf(sizes) : sizes \in SeqsUpTo(PageSizes, MaxPages)}

-----------------------------------------------------------------------------
(* The state machine *)

NoLocals ==
    /\ offset' = 0
    /\ all_people' = <<>>
    /\ people' = <<>>
    /\ idx' = 0
    /\ hubs_counts' = hubs_counts_init
    /\ cutoff' = 0
    /\ active' = {}

\* how the run that has just ended stands: its report, cutoff, active set,
\* outcome, page requests and the last clock reading
Last == [report |-> report, cutoff |-> cutoff, active |-> active,
         outcome |-> outcome, clock |-> clock, requests |-> requests]

NoRun == [report |-> 0, cutoff |-> 0, active |-> {},
          outcome |-> [kind |-> "none"], clock |-> StartClock,
          requests |-> <<>>]

\* no has_email_activity batch
NoLookup == [pc |-> "none"]

Idle(upstreams, disks, runs) ==
    /\ upstream \in upstreams
    /\ clock = StartClock
    /\ budget = runs
    /\ pc = "idle"
    /\ report = 0
    /\ offset = 0
    /\ all_people = <<>>
    /\ requests = <<>>
    /\ people = <<>>
    /\ idx = 0
    /\ hubs_counts = hubs_counts_init
    /\ cutoff = 0
    /\ active = {}
    /\ files \in disks
    /\ outcome = [kind |-> "none"]
    /\ earlier = NoRun

InitWith(upstreams, disks, runs) ==
    /\ Idle(upstreams, disks, runs)
    /\ lookup = NoLookup

\* datetime.now(): a reading not before the last one
Readings == clock..(StartClock + MaxTicks)

\* the caller starts generate_*_report, which calls get_all_people
Generate(r) ==
    /\ pc = "idle"
    /\ budget > 0
    /\ budget' = budget - 1
    /\ report' = r
    /\ pc' = "fetch"
    /\ requests' = <<>>
    /\ outcome' = [kind |-> "running"]
    /\ NoLocals
    /\ earlier' = Last
    /\ UNCHANGED <<lookup, upstream, clock, files>>

\* an exception leaves the report function: its locals are gone, the caller
\* gets the error, nothing is written
Raise(error) ==
    /\ pc' = "idle"
    /\ outcome' = [kind |-> "error", error |-> error]
    /\ NoLocals
    /\ UNCHANGED files

\* the page the upstream serves to the n-th request of a fetch
PageAt(n) == IF n <= Len(upstream) THEN upstream[n] ELSE <<>>

\* 'if not people: break'
NoPeople(page) == Len(page) = 0

\* the loop without its second break
LessThanLimit_Never(page) == FALSE

\* 'if len(people) < limit: break'
LessThanLimit(page) == Len(page) < limit

\* get_all_people returns ps to the report; reports 1, 3 and 4 then run the
\* loop of get_list_members over it
Return(ps) ==
    IF report # 2 /\ AnyFault(ps)
    THEN Raise(FirstFault(ps))
    ELSE /\ people' = ps
         /\ pc' = IF report = 2 THEN "loop" ELSE "classify"
         /\ offset' = 0
         /\ all_people' = <<>>
         /\ UNCHANGED <<idx, hubs_counts, cutoff, active, files, outcome>>

\* a request that sends the number of the page
Request_PageNumber(succeeds) ==
    [offset |-> Len(requests), limit |-> limit, ok |-> succeeds]

\* _make_request('people', {'limit': f'{offset},{limit}'})
Request(succeeds) == [offset |-> offset, limit |-> limit, ok |-> succeeds]

\* a fetch that swallows the failure and returns what it has
RequestFails_ReturnsPartial ==
    /\ pc = "fetch"
    /\ requests' = Append(requests, Request(FALSE))
    /\ Return(all_people)
    /\ UNCHANGED <<lookup, earlier, upstream, clock, budget, report>>

\* _make_request: requests.get raises, or raise_for_status does
RequestFails ==
    /\ pc = "fetch"
    /\ requests' = Append(requests, Request(FALSE))
    /\ Raise("HTTPError")
    /\ UNCHANGED <<lookup, earlier, upstream, clock, budget, report>>

\* the page put in front of the records received so far
extend_AtFront(all, page) == page \o all

\* all_people.extend(people)
extend(all, page) == all \o page

\* _make_request returns a page: one turn of the loop of get_all_people
RequestOk ==
    /\ pc = "fetch"
    /\ requests' = Append(requests, Request(TRUE))
    /\ LET page == PageAt(Len(requests) + 1)
       IN  IF NoPeople(page)
           THEN Return(all_people)
           ELSE IF LessThanLimit(page)
           THEN Return(extend(all_people, page))
           ELSE /\ all_people' = extend(all_people, page)
                /\ offset' = offset + Len(page)
                /\ UNCHANGED <<pc, people, idx, hubs_counts, cutoff, active,
                               files, outcome>>
    /\ UNCHANGED <<lookup, earlier, upstream, clock, budget, report>>

\* reports 1, 3, 4: get_active_emails / get_active_emails_by_status
Classify ==
    /\ pc = "classify"
    /\ \E now \in Readings : clock' = now
    /\ cutoff' = Cutoff(clock')
    /\ active' = IF report = 4
                 THEN get_active_emails_by_status(people, Cutoff(clock'),
                          uos_members(people).UOS, uos_members(people).NonUOS)
                 ELSE get_active_emails(people, Cutoff(clock'))
    /\ pc' = "emit"
    /\ UNCHANGED <<lookup, earlier, upstream, budget, report, offset, all_people,
                   requests, people, idx, hubs_counts, files, outcome>>

\* the rows of the report being generated
Rows(now) ==
    CASE report = 1 -> report_data_1(people, active)
      [] report = 2 -> report_data_2(hubs_counts, people, now)
      [] report = 3 -> summary_3(people, active)
      [] report = 4 -> summary_4(people, active)

\* df.to_excel(filename_with_date); return filename_with_date
WriteAndReturn ==
    /\ \E now \in Readings : clock' = now
    /\ files' = (FileName(report, clock') :> Rows(clock')) @@ files
    /\ outcome' = [kind |-> "ok", file |-> FileName(report, clock')]
    /\ pc' = "idle"

\* reports 1, 3, 4: build the rows and write the file
Emit ==
    /\ pc = "emit"
    /\ WriteAndReturn
    /\ UNCHANGED <<lookup, earlier, upstream, budget, report, offset, all_people,
                   requests, people, idx, hubs_counts, cutoff, active>>

\* report 2: one iteration of 'for person in people'
ProcessPerson ==
    /\ pc = "loop"
    /\ idx < Len(people)
    /\ IF GroupsFault(people[idx + 1])
       THEN Raise("TypeError")
       ELSE /\ hubs_counts' = process_person(hubs_counts, people[idx + 1])
            /\ idx' = idx + 1
            /\ UNCHANGED <<pc, offset, all_people, people, cutoff, active,
                           files, outcome>>
    /\ UNCHANGED <<lookup, earlier, upstream, clock, budget, report, requests>>

\* report 2: after the loop, build the rows and write the file
EmitMembership ==
    /\ pc = "loop"
    /\ idx = Len(people)
    /\ WriteAndReturn
    /\ UNCHANGED <<lookup, earlier, upstream, budget, report, offset, all_people,
                   requests, people, idx, hubs_counts, cutoff, active>>

Next ==
    \/ \E r \in 1..4 : Generate(r)
    \/ RequestFails
    \/ RequestOk
    \/ Classify
    \/ Emit
    \/ ProcessPerson
    \/ EmitMembership

\* an empty disk, and one that holds the files of an earlier run of each report
\* on the day of StartClock
EarlierRows == << ("Report Date" :> "earlier") >>
NoFiles == <<>>
EarlierFiles == [name \in {FileName(r, StartClock) : r \in 1..4} |-> EarlierRows]

\* aggregation: one run over a small upstream of varied contacts
Init == InitWith(SmallUpstreams, {NoFiles}, 1)
Spec == Init /\ [][Next]_vars

\* pagination: one run over an upstream of full and short pages
InitFetch == InitWith(BigUpstreams, {NoFiles, EarlierFiles}, 1)
SpecFetch == InitFetch /\ [][Next]_vars

\* reruns: two runs, over a few contacts on the 90-day boundary or over a
\* directory of two pages
TwiceUniverse == {c \in Universe : c.id \in {JStr("p1"), JStr("p3")}}
TwoPages == PagesOf(<<limit, 1>>)
TwiceUpstreams ==
    {<<page>> : page \in SeqsUpTo(TwiceUniverse, MaxPeople)} \cup {TwoPages}
InitTwice == InitWith(TwiceUpstreams, {NoFiles}, 2)
SpecTwice == InitTwice /\ [][Next]_vars

-----------------------------------------------------------------------------
(* The event feed of a contact: get_person_feed and has_email_activity.      *)
(* An event name is the sequence of its characters.                          *)

UpperCase == <<"A", "B", "C", "D", "E", "F", "G", "H", "I", "J", "K", "L", "M">> \o
             <<"N", "O", "P", "Q", "R", "S", "T", "U", "V", "W", "X", "Y", "Z">>
LowerCase == <<"a", "b", "c", "d", "e", "f", "g", "h", "i", "j", "k", "l", "m">> \o
             <<"n", "o", "p", "q", "r", "s", "t", "u", "v", "w", "x", "y", "z">>

\* str.lower()
lower(s) ==
    [i \in 1..Len(s) |->
        IF \E k \in 1..Len(UpperCase) : UpperCase[k] = s[i]
        THEN LowerCase[CHOOSE k \in 1..Len(UpperCase) : UpperCase[k] = s[i]]
        ELSE s[i]]

\* e in s, for strings
Contains(e, s) == \E k \in 0..(Len(s) - Len(e)) : SubSeq(s, k + 1, k + Len(e)) = e

email_events ==
    << <<"e", "m", "a", "i", "l", "_", "o", "p", "e", "n">>,
       <<"E", "m", "a", "i", "l", " ", "O", "p", "e", "n", "e", "d">>,
       <<"B", "r", "o", "a", "d", "c", "a", "s", "t", " ", "O", "p", "e", "n", "e", "d">>,
       <<"o", "p", "e", "n", "e", "d", "_", "e", "m", "a", "i", "l">>,
       <<"o", "p", "e", "n">> >>

\* event.get('name', '').lower(): the key's default is '', and a name that is
\* no string has no lower() (AttributeError)
NameFault(event) == "name" \in DOMAIN event /\ event.name.t # "str"
event_name(event) == IF "name" \in DOMAIN event THEN lower(event.name.v) ELSE <<>>

\* any(e.lower() in event_name for e in email_events)
IsEmailEvent(event) ==
    \E i \in 1..Len(email_events) : Contains(lower(email_events[i]), event_name(event))

\* the loop 'for event in events' of has_email_activity inside its try: True
\* at the first e-mail event, False when there is none or when an event
\* before it raises
ScanEvents(events) ==
    LET stops == {i \in 1..Len(events) :
                     NameFault(events[i]) \/ IsEmailEvent(events[i])}
    IN  IF stops = {}
        THEN FALSE
        ELSE ~NameFault(events[CHOOSE i \in stops : \A j \in stops : i <= j])

\* the feed the API serves for the contact of the call in progress, and the
\* page it serves to the n-th request of the call
FeedOf == lookup.feeds[Len(lookup.answers) + 1]
FeedPageAt(n) == IF n <= Len(FeedOf) THEN FeedOf[n] ELSE <<>>

\* the caller calls has_email_activity(person) for the next contact, which
\* calls get_person_feed: all_events = [], offset = 0
StartLookup ==
    /\ lookup.pc = "idle"
    /\ Len(lookup.answers) < Len(lookup.feeds)
    /\ lookup' = [lookup EXCEPT !.pc = "feed", !.offset = 0, !.all_events = <<>>,
                                !.calls = Append(@, <<>>)]
    /\ UNCHANGED reportVars

\* has_email_activity returns b to its caller
Answer(b) ==
    [lookup EXCEPT !.pc = "idle", !.answers = Append(@, b),
                   !.offset = 0, !.all_events = <<>>]

\* _make_request(f'people/{person_id}/feed', {'limit': f'{offset},{limit}', ...})
FeedRequest(succeeds) ==
    [offset |-> lookup.offset, limit |-> limit, ok |-> succeeds]
Logged(l, request) == [l EXCEPT !.calls[Len(l.calls)] = Append(@, request)]

\* a handler that answers from the events it has so far
Caught_ScansPartial == Answer(ScanEvents(lookup.all_events))

\* 'except Exception: return False'
Caught == Answer(FALSE)

\* _make_request raises inside get_person_feed; has_email_activity catches it
FeedRequestFails ==
    /\ lookup.pc = "feed"
    /\ lookup' = Logged(Caught, FeedRequest(FALSE))
    /\ UNCHANGED reportVars

\* _make_request returns a page: one turn of the loop of get_person_feed;
\* when the loop ends, has_email_activity scans the events
FeedRequestOk ==
    /\ lookup.pc = "feed"
    /\ LET events == FeedPageAt(Len(lookup.calls[Len(lookup.calls)]) + 1)
       IN  lookup' = Logged(
               IF NoPeople(events)
               THEN Answer(ScanEvents(lookup.all_events))
               ELSE IF LessThanLimit(events)
               THEN Answer(ScanEvents(extend(lookup.all_events, events)))
               ELSE [lookup EXCEPT !.all_events = extend(@, events),
                                   !.offset = @ + Len(events)],
               FeedRequest(TRUE))
    /\ UNCHANGED reportVars

NextFeed ==
    \/ StartLookup
    \/ FeedRequestFails
    \/ FeedRequestOk

\* the pages of a feed: a full page that holds an e-mail event, a short page
\* that ends with one, and a short page of events without a name, with a null
\* name and with other names
Event(name) == [name |-> JStr(name), type |-> JStr("event")]
FullPage ==
    [k \in 1..limit |-> IF k = 7 THEN Event(<<"B", "r", "o", "a", "d", "c", "a", "s", "t", " ", "O", "p", "e", "n", "e", "d", ":", " ", "n", "e", "w", "s">>)
                        ELSE Event(<<"P", "a", "g", "e", " ", "v", "i", "e", "w">>)]
ShortPage == << Event(<<"C", "l", "i", "c", "k", "e", "d", " ", "l", "i", "n", "k">>), Event(<<"E", "M", "A", "I", "L", "_", "O", "P", "E", "N">>) >>
OddPage ==
    << [type |-> JStr("event")], Event(<<"U", "n", "s", "u", "b", "s", "c", "r", "i", "b", "e", "d">>),
       [name |-> JNull, type |-> JStr("event")], Event(<<"E", "m", "a", "i", "l", " ", "O", "p", "e", "n", "e", "d">>) >>
Feeds == SeqsUpTo({FullPage, ShortPage, OddPage}, MaxPages)

\* a batch over two contacts
InitFeed ==
    /\ Idle({<<>>}, {NoFiles}, 0)
    /\ \E first \in Feeds, second \in {<<>>, <<ShortPage>>} :
          lookup = [pc |-> "idle", feeds |-> <<first, second>>, answers |-> <<>>,
                    offset |-> 0, all_events |-> <<>>, calls |-> <<>>]
SpecFeed == InitFeed /\ [][NextFeed]_vars

\* records of unexpected shape: a null e-mail, null smart_groups, and a
\* well-formed contact
ShapeUniverse ==
    { [id |-> JStr("s1"), email |-> JNull,
       smart_groups |-> JList({FAH, HubAI}),
       last_seen |-> IsoStr(StartClock, "Z")],
      [id |-> JStr("s2"), email |-> JStr("f@x"),
       smart_groups |-> JNull,
       last_seen |-> IsoStr(StartClock, "Z")],
      [id |-> JStr("s3"), email |-> JStr("g@x"),
       smart_groups |-> JList({FELS, HubCities, UOS_SMART_GROUP}),
       last_seen |-> IsoStr(StartClock, "Z")] }
InitShapes ==
    InitWith({<<page>> : page \in SeqsUpTo(ShapeUniverse, MaxPeople)}, {NoFiles}, 1)
SpecShapes == InitShapes /\ [][Next]_vars

-----------------------------------------------------------------------------
(* Properties *)

Range(f) == {f[i] : i \in DOMAIN f}

\* get_all_people has just returned
Returned == pc = "classify" \/ (pc = "loop" /\ idx = 0)

\* get_all_people has returned to the report of the current run
Fetched == pc \in {"classify", "loop", "emit"} \/ outcome.kind = "ok"

\* the first page that is empty or short
StopAt == CHOOSE n \in 1..(Len(upstream) + 1) :
            /\ Len(PageAt(n)) < limit
            /\ \A m \in 1..(n - 1) : Len(PageAt(m)) >= limit

\* the records of the first n pages
Served(n) == SumTo([i \in 1..n |-> Len(PageAt(i))], n)

PageLens == [n \in 1..Len(upstream) |-> Len(upstream[n])]

\* C1: get_all_people requests pages with limit 250 up to the first page that
\* is empty or holds fewer than 250 records and stops there and only there: a
\* fetch under way has not reached that page, a fetch that returned made
\* exactly one request per page up to it and returned every record of those
\* pages; pages [250,250,100] give 600 records after 3 requests and pages
\* [250,0] give 250 records after 2.
C1_PaginationStops ==
    /\ \A i \in 1..Len(requests) : requests[i].limit = 250
    /\ pc = "fetch" => Len(requests) < StopAt
    /\ Fetched =>
        /\ Len(requests) = StopAt
        /\ Len(people) = Served(StopAt)
        /\ Returned => \A n \in 1..StopAt : Range(PageAt(n)) \subseteq Range(people)
        /\ PageLens = <<250, 250, 100>> => Len(people) = 600 /\ Len(requests) = 3
        /\ PageLens = <<250, 0>> => Len(people) = 250 /\ Len(requests) = 2

C1_Witness ==
    /\ Fetched
    /\ PageLens = <<250, 250, 100>>
    /\ Len(people) = 600
    /\ Len(requests) = 3

\* C2: a failed page request is the last request of its fetch (no retry, no
\* further page), and the step in which it fails ends the run with an error
\* for the caller, hands the records of the earlier pages to nobody and leaves
\* every file on disk as it was.
C2_FailureAborts ==
    /\ [](\A i \in 1..(Len(requests) - 1) : requests[i].ok)
    /\ [][(Len(requests') = Len(requests) + 1 /\ ~requests'[Len(requests')].ok)
            => /\ pc' = "idle"
               /\ outcome'.kind = "error"
               /\ people' = <<>>
               /\ all_people' = <<>>
               /\ files' = files]_vars

C2_Witness ==
    /\ outcome.kind = "error"
    /\ Len(requests) = 3
    /\ ~requests[3].ok
    /\ people = <<>>
    /\ files = EarlierFiles

\* the run ended with a file for report r, which TheFile is
Done(r) == outcome.kind = "ok" /\ report = r
TheFile == files[outcome.file]

HasEmail(p) == Email(p) # ""

\* the distinct contacts of a batch, which their e-mails identify
Contacts(ps) == {Email(ps[i]) : i \in WithEmail(ps)}

RECURSIVE hubs_counts_after(_, _)
\* hubs_counts after the first n contacts of ps
hubs_counts_after(ps, n) ==
    IF n = 0 THEN hubs_counts_init
    ELSE process_person(hubs_counts_after(ps, n - 1), ps[n])

\* the table report r makes of the contacts ps with the cutoff cut on day now
TableOf(r, ps, cut, now) ==
    CASE r = 1 -> report_data_1(ps, get_active_emails(ps, cut))
      [] r = 2 -> report_data_2(hubs_counts_after(ps, Len(ps)), ps, now)
      [] r = 3 -> summary_3(ps, get_active_emails(ps, cut))
      [] r = 4 -> summary_4(ps, get_active_emails_by_status(ps, cut,
                        uos_members(ps).UOS, uos_members(ps).NonUOS))

\* C3: in each of the four reports the contacts without an e-mail (missing or
\* empty) contribute to no count: the table written is the table of the
\* fetched contacts with those contacts left out.
C3_NoEmailNoCount ==
    outcome.kind = "ok" =>
        TheFile = TableOf(report, SelectSeq(people, HasEmail),
                          IF report = 2 THEN 0 ELSE cutoff, clock)

TotalOf(row) == IF "Members" \in DOMAIN row THEN row["Members"] ELSE row["Total Members"]
ActiveOf(row) == IF "Active" \in DOMAIN row THEN row["Active"] ELSE row["Active Members"]

Digits == {"0", "1", "2", "3", "4", "5", "6", "7", "8", "9"}

\* the percentages from 0 to 100 with two decimals, as text
PercentStrings ==
    {ToString(w) \o "." \o d1 \o d2 \o "%" : w \in 0..99, d1 \in Digits, d2 \in Digits}
    \cup {"100.00%"}

\* C4: every row of the Faculty Activity, Hub Activity and Institutional-Status
\* tables has active <= total and a percentage between 0 and 100, and a row
\* with total 0 has the percentage 0 (it is produced, with no division).
C4_ActiveWithinTotal ==
    (outcome.kind = "ok" /\ report \in {1, 3, 4}) =>
        \A i \in 1..Len(TheFile) :
            LET row == TheFile[i]
            IN  /\ 0 <= ActiveOf(row)
                /\ ActiveOf(row) <= TotalOf(row)
                /\ row["Active %"] \in PercentStrings
                /\ TotalOf(row) = 0 => row["Active %"] = "0.00%"

C4_Witness ==
    /\ Done(1)
    /\ \E i \in 1..Len(TheFile) : TotalOf(TheFile[i]) = 0 /\ TheFile[i]["Active %"] = "0.00%"
    /\ \E i \in 1..Len(TheFile) : 0 < ActiveOf(TheFile[i]) /\ ActiveOf(TheFile[i]) < TotalOf(TheFile[i])
    /\ Cardinality(active) > 1

\* the column of the Membership Breakdown that a faculty slug is counted in
FacultyColumn ==
    ("fah-faculty-of-arts-humanities" :> "FAH")
    @@ ("fels-faculty-of-environmental-life-sciences" :> "FELS")
    @@ ("feps-faculty-of-engineering-physical-sciences" :> "FEPS")
    @@ ("fm-faculty-of-medicine" :> "FM")
    @@ ("fss-faculty-of-social-sciences" :> "FSS")
    @@ ("professional-services" :> "PS")

\* the row of hub number i: the "All Hubs" row comes first
HubRowOf(table, i) == table[i + 1]

\* C5: in the Membership Breakdown the faculty column F of hub H's row is the
\* number of fetched contacts that carry both H's and F's identifier.
C5_HubFacultyCells ==
    Done(2) =>
        \A i \in 1..Len(HUB_SMART_GROUPS) : \A f \in Slugs(FACULTY_SMART_GROUPS) :
            /\ HubRowOf(TheFile, i)["PCE Hub"] = HUB_SMART_GROUPS[i].name
            /\ HubRowOf(TheFile, i)[FacultyColumn[f]] =
                 Cardinality({k \in 1..Len(people) :
                    /\ InGroups(HUB_SMART_GROUPS[i].slug, people[k])
                    /\ InGroups(f, people[k])})

\* C6: the Institutional-Status Comparison has exactly two rows whose member
\* sets partition the contacts: no contact is in both, and the two totals sum
\* to the number of contacts.
C6_StatusPartition ==
    Done(4) =>
        /\ Len(TheFile) = 2
        /\ uos_members(people).UOS \cap uos_members(people).NonUOS = {}
        /\ TotalOf(TheFile[1]) + TotalOf(TheFile[2]) = Cardinality(Contacts(people))

\* C7: the Membership Breakdown table starts with the "All Hubs" row, whose
\* Total is the number of contacts the fetch received, whatever their tags.
C7_AllRowCountsEveryone ==
    Done(2) =>
        /\ TheFile[1]["PCE Hub"] = "All Hubs"
        /\ TheFile[1]["Total"] = Served(StopAt)
        /\ \A i \in 2..Len(TheFile) : TheFile[i]["PCE Hub"] # "All Hubs"

C7_Witness ==
    /\ Done(2)
    /\ TheFile[1]["Total"] = 3
    /\ \E i \in 1..Len(people) : ~HasEmail(people[i])
    /\ \E i \in 1..Len(people) : Groups(people[i]) = {}
    /\ \E i \in 1..Len(people) : interests(people[i]) # {}

HubNames == Names(HUB_SMART_GROUPS)
HubSlug(h) == HUB_SMART_GROUPS[SlugOf(HUB_SMART_GROUPS, h)].slug

\* no count of a hub's entry is lower in hc2 than in hc1
NotLower(hc1, hc2) ==
    \A h \in HubNames :
        /\ hc2[h].total >= hc1[h].total
        /\ hc2[h].non_current >= hc1[h].non_current
        /\ hc2[h].current >= hc1[h].current
        /\ hc2[h].alumni >= hc1[h].alumni
        /\ \A f \in DOMAIN hc1[h].faculties :
              hc2[h].faculties[f].total >= hc1[h].faculties[f].total

\* C8: in the Membership Breakdown, processing a contact tagged with both hub
\* A and hub B adds one to hub A's Total and one to hub B's, processing a
\* contact lowers no count of any hub, and the Totals written are the counts
\* the loop ends with.
C8_HubsNotExclusive ==
    /\ [](Done(2) => \A i \in 1..Len(HUB_SMART_GROUPS) :
            HubRowOf(TheFile, i)["Total"] = hubs_counts[HUB_SMART_GROUPS[i].name].total)
    /\ [][(pc = "loop" /\ idx' = idx + 1) =>
            /\ NotLower(hubs_counts, hubs_counts')
            /\ \A a \in HubNames : \A b \in HubNames \ {a} :
                 (/\ InGroups(HubSlug(a), people[idx + 1])
                  /\ InGroups(HubSlug(b), people[idx + 1]))
                 => /\ hubs_counts'[a].total = hubs_counts[a].total + 1
                    /\ hubs_counts'[b].total = hubs_counts[b].total + 1]_vars

C8_Witness ==
    /\ pc = "loop"
    /\ idx = 2
    /\ InGroups(HubAI, people[2])
    /\ InGroups(HubHealth, people[2])
    /\ hubs_counts["Artificial Intelligence (AI) & Society"].total = 2
    /\ hubs_counts["Health & Wellbeing"].total = 1

\* the e-mails the classification of the current run found active
ActiveEmails == IF report = 4 THEN active.UOS \cup active.NonUOS ELSE active

\* the instant an ISO text with a zone designator names
InstantOf(x) == IF x.tz = "+01:00" THEN x.local - 3600 ELSE x.local

Zoned(x) == x.t = "str" /\ x.form = "iso" /\ x.tz # ""

\* no other record of the batch has the e-mail of record i
OnlyRecord(ps, i) == \A j \in 1..Len(ps) : j # i => Email(ps[j]) # Email(ps[i])

\* C9: once the activity cutoff has been computed at the clock reading
\* 'clock', a contact last active exactly 90 days before that reading is
\* classified active, and one last active 90 days and one second before it is
\* classified inactive.
C9_WindowBoundary ==
    pc = "emit" =>
        \A i \in WithEmail(people) :
            LET x == LastSeen(people[i])
            IN  Zoned(x) =>
                /\ InstantOf(x) = clock - 90 * 86400
                      => Email(people[i]) \in ActiveEmails
                /\ (InstantOf(x) = clock - 90 * 86400 - 1 /\ OnlyRecord(people, i))
                      => Email(people[i]) \notin ActiveEmails

C9_Witness ==
    /\ pc = "emit"
    /\ \E i \in WithEmail(people) :
          /\ Zoned(LastSeen(people[i]))
          /\ InstantOf(LastSeen(people[i])) = clock - 90 * 86400
          /\ Email(people[i]) \in ActiveEmails
    /\ \E i \in WithEmail(people) :
          /\ Zoned(LastSeen(people[i]))
          /\ InstantOf(LastSeen(people[i])) = clock - 90 * 86400 - 1
          /\ Email(people[i]) \notin ActiveEmails

\* e-mails identify the contacts of the batch: no two records share one
EmailsUnique(ps) ==
    \A i \in WithEmail(ps) : \A j \in WithEmail(ps) : i # j => Email(ps[i]) # Email(ps[j])

DigitSeq == <<"0", "1", "2", "3", "4", "5", "6", "7", "8", "9">>

\* h hundredths of a percent as text with two decimals
PercentText(h) ==
    ToString(h \div 100) \o "." \o DigitSeq[((h \div 10) % 10) + 1]
    \o DigitSeq[(h % 10) + 1] \o "%"

\* text is act/total*100 to two decimals: the nearest hundredth
IsPercentOf(text, act, total) ==
    IF total = 0
    THEN text = "0.00%"
    ELSE \E h \in {(act * 10000) \div total, (act * 10000) \div total + 1} :
            /\ 2 * h * total - 2 * act * 10000 <= total
            /\ 2 * act * 10000 - 2 * h * total <= total
            /\ text = PercentText(h)

\* the records with an e-mail that carry the group slug
Tagged(ps, slug) == {k \in WithEmail(ps) : InGroups(slug, ps[k])}

\* the table has one row per entry of the vocabulary, in its order, with the
\* number of contacts tagged with the entry, the number of those classified
\* active, and the percentage
ActivityTable(table, vocabulary, keycol) ==
    /\ Len(table) = Len(vocabulary)
    /\ \A i \in 1..Len(vocabulary) :
        LET row == table[i]
            tagged == Tagged(people, vocabulary[i].slug)
        IN  /\ row[keycol] = vocabulary[i].name
            /\ TotalOf(row) = Cardinality(tagged)
            /\ ActiveOf(row) = Cardinality({k \in tagged : Email(people[k]) \in active})
            /\ IsPercentOf(row["Active %"], ActiveOf(row), TotalOf(row))
            /\ (TotalOf(row) = 3 /\ ActiveOf(row) = 1) => row["Active %"] = "33.33%"

\* C10: for a batch whose e-mails identify its contacts, the Faculty Activity
\* table has one row per faculty label in the order of FACULTY_SMART_GROUPS,
\* with Total the number of contacts (that have an e-mail) with the faculty
\* tag, Active the number of those classified active and Active % =
\* active/total*100 to two decimals (3 tagged, 1 active: "33.33%"); the Hub
\* Activity table is the same over HUB_SMART_GROUPS.
C10_ActivityTables ==
    EmailsUnique(people) =>
        /\ Done(1) => ActivityTable(TheFile, FACULTY_SMART_GROUPS, "Faculty")
        /\ Done(3) => ActivityTable(TheFile, HUB_SMART_GROUPS, "Hub")

C10_Witness ==
    /\ Done(1)
    /\ EmailsUnique(people)
    /\ TheFile[1]["Faculty"] = "FAH (Faculty of Arts & Humanities)"
    /\ TheFile[1]["Total Members"] = 3
    /\ TheFile[1]["Active Members"] = 1
    /\ TheFile[1]["Active %"] = "33.33%"

-----------------------------------------------------------------------------
(* Reruns *)

\* the step that ends a successful run of the report that the run before it
\* also generated, on the calendar day that run ended
Rerun ==
    /\ outcome.kind = "running"
    /\ outcome'.kind = "ok"
    /\ earlier.outcome.kind = "ok"
    /\ earlier.report = report
    /\ earlier.clock \div SecondsPerDay = clock' \div SecondsPerDay

\* a contact whose last activity lies between the cutoffs c1 and c2
Crosses(p, c1, c2) ==
    /\ Zoned(LastSeen(p))
    /\ \/ c1 <= InstantOf(LastSeen(p)) /\ InstantOf(LastSeen(p)) < c2
       \/ c2 <= InstantOf(LastSeen(p)) /\ InstantOf(LastSeen(p)) < c1

-----------------------------------------------------------------------------
(* Timestamps that do not parse *)

\* a last-activity value that is no timezone-aware instant: text that is no
\* date, a date without a zone, a value that is no string
Unparseable(x) == Truthy(x) /\ ~Zoned(x)

\* the e-mails of the contacts of ps seen since cut, the contacts whose
\* last-activity value does not parse left out
ActiveAmongParseable(ps, cut) ==
    {Email(ps[i]) : i \in {j \in WithEmail(ps) :
                              /\ Zoned(LastSeen(ps[j]))
                              /\ InstantOf(LastSeen(ps[j])) >= cut}}

\* C12: a contact whose last-activity value cannot be parsed as a
\* timezone-aware instant is classified inactive, the classification raises
\* no error, and the other contacts are classified as without it
C12_UnparseableInactive ==
    /\ [](pc = "emit" =>
            /\ \A i \in WithEmail(people) :
                  Unparseable(LastSeen(people[i])) /\ OnlyRecord(people, i)
                      => Email(people[i]) \notin ActiveEmails
            /\ ActiveEmails = ActiveAmongParseable(people, cutoff))
    /\ [][pc = "classify" => pc' = "emit" /\ outcome' = outcome]_vars

\* a classification over a date that is no date and a date without a zone
\* has ended, and another contact is active
C12_Witness ==
    /\ pc = "emit"
    /\ \E i, j \in WithEmail(people) :
          /\ LastSeen(people[i]) = TextStr
          /\ LastSeen(people[j]).t = "str" /\ LastSeen(people[j]).form = "iso"
          /\ LastSeen(people[j]).tz = ""
    /\ ActiveEmails # {}

-----------------------------------------------------------------------------
(* Records of unexpected shape *)

\* C13: a record whose e-mail or membership-tag field is null never aborts a
\* report run: a run ends in an error only when a page request failed
C13_ShapeNeverAborts ==
    outcome.kind = "error" => outcome.error = "HTTPError"

-----------------------------------------------------------------------------
(* A feed that fails *)

\* the requests of the call in progress or, between calls, of the last call
FeedLog(l) == l.calls[Len(l.calls)]

\* the step in which a page request of get_person_feed fails
FeedFailure ==
    /\ lookup.pc = "feed"
    /\ Len(FeedLog(lookup')) = Len(FeedLog(lookup)) + 1
    /\ ~FeedLog(lookup')[Len(FeedLog(lookup'))].ok

\* C14: when a page request of a contact's feed fails, has_email_activity
\* returns False to its caller, whatever pages it had received, and raises
\* nothing: the caller goes on with the answers it has and the next contact
C14_FeedFailureIsFalse ==
    [][FeedFailure =>
        /\ lookup'.pc = "idle"
        /\ lookup'.answers = Append(lookup.answers, FALSE)
        /\ lookup'.feeds = lookup.feeds]_vars

\* the feed of the first contact failed after a full page that holds an
\* e-mail event, and the second contact has been answered
C14_Witness ==
    /\ lookup.pc = "idle"
    /\ lookup.answers = <<FALSE, TRUE>>
    /\ Len(lookup.calls[1]) = 2
    /\ lookup.calls[1][1].ok /\ ~lookup.calls[1][2].ok
    /\ ScanEvents(lookup.feeds[1][1])

-----------------------------------------------------------------------------
(* Contacts outside the vocabulary *)

\* the contact carries a tag of the faculty or of the hub vocabulary
InVocabulary(p) ==
    Groups(p) \cap (Slugs(FACULTY_SMART_GROUPS) \cup Slugs(HUB_SMART_GROUPS)) # {}

\* no record without such a tag shares its e-mail with a record that has one
UntaggedApart(ps) ==
    \A i, j \in WithEmail(ps) :
        ~InVocabulary(ps[i]) /\ InVocabulary(ps[j]) => Email(ps[i]) # Email(ps[j])

\* C15: a contact whose tags name no faculty and no hub raises no error
\* (a run ends in an error only after a failed page request), adds nothing
\* to a per-faculty or per-hub row of the Faculty Activity, Membership
\* Breakdown or Activity per Hub tables, and is counted in the Total of the
\* "All Hubs" row
C15_OutsideVocabulary ==
    /\ outcome.kind = "error" => ~requests[Len(requests)].ok
    /\ outcome.kind = "ok" /\ UntaggedApart(people) =>
        LET tagged == SelectSeq(people, InVocabulary)
        IN  /\ report \in {1, 3} => TheFile = TableOf(report, tagged, cutoff, clock)
            /\ report = 2 =>
                  /\ \A i \in 2..Len(TheFile) :
                        TheFile[i] = TableOf(2, tagged, 0, clock)[i]
                  /\ TheFile[1]["Total"] = Len(people)

\* a Membership Breakdown over a contact with an unknown tag only, and a
\* Faculty Activity report over a contact with no tags
C15_Witness ==
    /\ outcome.kind = "ok"
    /\ Len(people) = 3
    /\ \E i \in 1..Len(people) : InVocabulary(people[i])
    /\ \/ /\ report = 2
          /\ \E i \in 1..Len(people) :
                ~InVocabulary(people[i]) /\ Groups(people[i]) # {}
          /\ TheFile[1]["Total"] = Len(people)
       \/ /\ report = 1
          /\ \E i \in 1..Len(people) :
                HasEmail(people[i]) /\ Groups(people[i]) = {}

-----------------------------------------------------------------------------
(* The order of the fetched records *)

RECURSIVE PagesInOrder(_)
\* the first n pages the upstream serves, one after the other
PagesInOrder(n) == IF n = 0 THEN <<>> ELSE PagesInOrder(n - 1) \o PageAt(n)

\* C16: a fetch that succeeds returns the pages it received, up to the page
\* that stopped it, concatenated in the order of the requests, the records
\* of a page in the order of the page; while it runs, the accumulator holds
\* the pages received so far in that order
C16_PagesInOrder ==
    /\ Returned => people = PagesInOrder(StopAt)
    /\ pc = "fetch" => all_people = PagesInOrder(Len(requests))

\* a fetch of two full pages and a short one has returned
C16_Witness ==
    /\ Returned
    /\ Len(requests) = 3
    /\ Len(people) = 2 * limit + 100
    /\ people[1].id = JNum(1)
    /\ people[limit + 1].id = JNum(limit + 1)
    /\ people[Len(people)].id = JNum(Len(people))

-----------------------------------------------------------------------------
(* Which timestamp decides *)

\* the field is there and is neither null nor the empty string
Present(p, key) ==
    /\ key \in DOMAIN p
    /\ p[key].t # "null"
    /\ ~(p[key].t = "str" /\ p[key].form = "empty")

\* the value is a zoned instant at or after the cutoff
Recent(x, cut) == Zoned(x) /\ InstantOf(x) >= cut

-----------------------------------------------------------------------------
(* The counts of the Membership Breakdown *)

\* C18: at every state of the aggregation of the Membership Breakdown each
\* hub has current + non-current = total and alumni <= total, and so has
\* every row of the table written, the "All Hubs" row included
C18_StatusCountsAddUp ==
    /\ \A h \in HubNames :
          /\ hubs_counts[h].current + hubs_counts[h].non_current = hubs_counts[h].total
          /\ hubs_counts[h].alumni <= hubs_counts[h].total
    /\ Done(2) =>
          \A i \in 1..Len(TheFile) :
              /\ TheFile[i]["Current UoS"] + TheFile[i]["Non-Current UoS"]
                    = TheFile[i]["Total"]
              /\ TheFile[i]["Alumni"] <= TheFile[i]["Total"]

\* in the middle of the loop a hub has a current member and a non-current
\* alumnus
C18_Witness ==
    /\ pc = "loop"
    /\ idx = 2 /\ idx < Len(people)
    /\ \E h \in HubNames :
          /\ hubs_counts[h].total = 2
          /\ hubs_counts[h].current = 1
          /\ hubs_counts[h].non_current = 1
          /\ hubs_counts[h].alumni = 1

-----------------------------------------------------------------------------
(* The offsets of the page requests *)

\* C19: each page request of a fetch sends the count 250 and, as offset,
\* the number of records received in the earlier pages of the fetch (0 for
\* the first); the offsets of a fetch increase strictly; and every call
\* starts from offset 0 with an empty accumulator, whatever the calls before
C19_OffsetsFollowRecords ==
    /\ [](/\ \A i \in 1..Len(requests) :
               /\ requests[i].limit = 250
               /\ requests[i].offset = Served(i - 1)
               /\ i > 1 => requests[i].offset > requests[i - 1].offset
          /\ pc = "fetch" => offset = Len(all_people))
    /\ [][pc = "idle" /\ pc' = "fetch" =>
            offset' = 0 /\ all_people' = <<>> /\ requests' = <<>>]_vars

\* the second run of a behaviour has sent its second request, after a first
\* run that sent two
C19_Witness ==
    /\ earlier.outcome.kind = "ok"
    /\ Len(earlier.requests) = 2
    /\ Len(requests) = 2
    /\ requests[1].offset = 0
    /\ requests[2].offset = limit

====
